---- MODULE Spec2Model ----
(***************************************************************************)
(* Rank sort on an OpenCL device (src/src/main.rs).                        *)
(*                                                                         *)
(* The host uploads three buffers with blocking writes, enqueues           *)
(* compare_kernel over an N x N grid and assign_kernel over N work items,  *)
(* each with an explicit event wait list, reads the result buffer back,    *)
(* derives a duration from the profiling timestamps and finally runs the   *)
(* sequential merge_sort on the same input.                                *)
(*                                                                         *)
(* Every work item of a kernel is a process of the model.  A work item     *)
(* step is one access to shared device memory (atomic_inc, atomic_cmpxchg) *)
(* together with the private computation around it.  The device starts a   *)
(* command once every event of its wait list is complete; no ordering is   *)
(* taken from the submission order of the queue.                           *)
(*                                                                         *)
(* result_buffer is created CL_MEM_WRITE_ONLY (line 146) although          *)
(* assign_kernel reads it through atomic_cmpxchg.  The flag is taken as    *)
(* the usage hint it is to the runtime: atomic_cmpxchg on results has its  *)
(* ordinary atomic read-compare-write meaning.                             *)
(*                                                                         *)
(* Arrays are 1-based sequences; the 0-based index k of the source is      *)
(* position k + 1.  counts and the loop variable i keep their 0-based      *)
(* values.                                                                 *)
(***************************************************************************)
EXTENDS Integers, Sequences, FiniteSets

VARIABLES
    pc,                 \* host position in main
    input,              \* host vector input
    input_buffer,       \* device buffer: source
    count_buffer,       \* device buffer: counts
    result_buffer,      \* device buffer: results
    evt,                \* status of every command put on the queue
    cmpDone,            \* compare_kernel work items <<i, j>> that have run
    assign_pc,          \* assign_kernel work item: "loop" or "exit"
    assign_i,           \* assign_kernel work item: private i
    assign_expected,    \* assign_kernel work item: private expected
    now,                \* device clock
    tStart,             \* profiling_command_start of each kernel event
    tEnd,               \* profiling_command_end of each kernel event
    result,             \* host vector result
    duration,           \* host value duration
    merge_sort_input,   \* host vector merge_sort_input
    merge_sort_result,  \* host vector merge_sort_result
    printed,            \* the two arrays have been printed
    err                 \* the error main has ended with, or "none"

vars == <<pc, input, input_buffer, count_buffer, result_buffer, evt, cmpDone,
          assign_pc, assign_i, assign_expected, now, tStart, tEnd, result,
          duration, merge_sort_input, merge_sort_result, printed, err>>

(***************************************************************************)
(* Bounds of the model.                                                    *)
(***************************************************************************)
MaxN == 3
MaxValue == 3
MaxElapsed == 2
MaxLen == 4

Sentinel == -1

Values == 0 .. (MaxValue - 1)
Garbage == {Sentinel, 0}
Kernels == {"compare", "assign"}
Cmds == {"input_write", "count_write", "result_write", "compare", "assign", "read"}

SeqsUpTo(lo, hi) == UNION {[1 .. n -> Values] : n \in lo .. hi}

N == Len(input)
Fill(n, v) == [k \in 1 .. n |-> v]

(***************************************************************************)
(* merge_sort and merge.  The elements carried through the merge are pairs *)
(* <<value, position in the vector handed to merge_sort>>; the code        *)
(* compares values only, the position records which of two equal values    *)
(* is which.                                                               *)
(***************************************************************************)
Val(e) == e[1]
Pos(e) == e[2]
Tagged(vec) == [k \in 1 .. Len(vec) |-> <<vec[k], k>>]
Vals(tv) == [k \in 1 .. Len(tv) |-> Val(tv[k])]

RECURSIVE merge_loop_right_dropped(_, _, _, _, _)
merge_loop_right_dropped(left, right, i, j, merged) ==
    IF i <= Len(left) /\ j <= Len(right)
    THEN IF Val(left[i]) < Val(right[j])
         THEN merge_loop_right_dropped(left, right, i + 1, j, Append(merged, left[i]))
         ELSE merge_loop_right_dropped(left, right, i, j + 1, Append(merged, right[j]))
    ELSE merged \o SubSeq(left, i, Len(left))

RECURSIVE merge_loop_descending(_, _, _, _, _)
merge_loop_descending(left, right, i, j, merged) ==
    IF i <= Len(left) /\ j <= Len(right)
    THEN IF Val(left[i]) > Val(right[j])
         THEN merge_loop_descending(left, right, i + 1, j, Append(merged, left[i]))
         ELSE merge_loop_descending(left, right, i, j + 1, Append(merged, right[j]))
    ELSE merged \o SubSeq(left, i, Len(left)) \o SubSeq(right, j, Len(right))

\* The while loop of merge followed by the two tail loops.
RECURSIVE merge_loop(_, _, _, _, _)
merge_loop(left, right, i, j, merged) ==
    IF i <= Len(left) /\ j <= Len(right)
    THEN IF Val(left[i]) < Val(right[j])
         THEN merge_loop(left, right, i + 1, j, Append(merged, left[i]))
         ELSE merge_loop(left, right, i, j + 1, Append(merged, right[j]))
    ELSE merged \o SubSeq(left, i, Len(left)) \o SubSeq(right, j, Len(right))

merge(left, right) == merge_loop(left, right, 1, 1, <<>>)

RECURSIVE merge_sort(_)
merge_sort(vec) ==
    IF Len(vec) < 2
    THEN vec
    ELSE LET size == Len(vec) \div 2
             left == merge_sort(SubSeq(vec, 1, size))
             right == merge_sort(SubSeq(vec, size + 1, Len(vec)))
         IN  merge(left, right)

(***************************************************************************)
(* Kernel expressions.                                                     *)
(***************************************************************************)
GreaterOrEqual(a, b) == a >= b

Less(a, b) == a < b

\* compare_kernel: if(source[i]>source[j])
Greater(a, b) == a > b

NoRetry(expected, count, i, size) == FALSE

LoopInverted(expected, count, i, size) ==
    expected = Sentinel /\ count + i < size

RetryShort(expected, count, i, size) ==
    expected # Sentinel /\ count + i < size - 1

\* assign_kernel: while(expected != -1 && (counts[my_id]+i < get_global_size(0)))
LoopAgain(expected, count, i, size) ==
    expected # Sentinel /\ count + i < size

\* atomic_cmpxchg(p, cmp, val): the value *p holds afterwards.
CmpXchg(old, cmp, val) == IF old = cmp THEN val ELSE old

(***************************************************************************)
(* Event wait lists given to the commands.                                 *)
(***************************************************************************)
CompareWaitList == {"input_write", "count_write"}

AssignWaitList_NoCompare == {"result_write"}

AssignWaitList == {"result_write", "compare"}

ReadWaitList_NoAssign == {"compare"}

ReadWaitList == {"compare", "assign"}

WaitList(k) == IF k = "compare" THEN CompareWaitList ELSE AssignWaitList

Complete(es) == \A e \in es : evt[e] = "complete"

(***************************************************************************)
(* Initial state: main has drawn its input and is about to create the      *)
(* three device buffers.                                                   *)
(***************************************************************************)
Idle(n) ==
    /\ evt = [c \in Cmds |-> "none"]
    /\ cmpDone = {}
    /\ assign_pc = Fill(n, "loop")
    /\ assign_i = Fill(n, 0)
    /\ assign_expected = Fill(n, 0)
    /\ now = 0
    /\ tStart = [k \in Kernels |-> 0]
    /\ tEnd = [k \in Kernels |-> 0]
    /\ result = Fill(n, 0)
    /\ duration = 0
    /\ merge_sort_result = <<>>
    /\ printed = FALSE
    /\ err = "none"

Init ==
    /\ input \in SeqsUpTo(0, MaxN)
    /\ pc = "create_buffers"
    /\ input_buffer = <<>>
    /\ count_buffer = <<>>
    /\ result_buffer = <<>>
    /\ Idle(Len(input))
    /\ merge_sort_input = <<>>

(***************************************************************************)
(* Host steps.  Every call into the OpenCL runtime either succeeds or      *)
(* returns an error; .expect(..) panics on it and ? returns it from main.  *)
(***************************************************************************)
Swallow(ok, next) == next

\* where main goes after a call: on, or out with the error
Propagate(ok, next) == IF ok THEN next ELSE "failed"

Raise(ok, stage) == IF ok THEN err ELSE stage

\* clCreateBuffer answers CL_INVALID_BUFFER_SIZE for a size of 0
CreateOutcomes == IF N = 0 THEN {FALSE} ELSE BOOLEAN

\* Buffer::create(.., ptr::null_mut()) three times: the contents of a new
\* buffer are whatever the allocation left there.
CreateBuffers ==
    /\ pc = "create_buffers"
    /\ \E ok \in CreateOutcomes, g \in Garbage :
          /\ input_buffer' = IF ok THEN Fill(N, g) ELSE input_buffer
          /\ count_buffer' = IF ok THEN Fill(N, g) ELSE count_buffer
          /\ result_buffer' = IF ok THEN Fill(N, g) ELSE result_buffer
          /\ pc' = Propagate(ok, "write_input")
          /\ err' = Raise(ok, "create_buffer")
    /\ UNCHANGED <<input, evt, cmpDone, assign_pc, assign_i, assign_expected,
                   now, tStart, tEnd, result, duration, merge_sort_input,
                   merge_sort_result, printed>>

WriteInput ==
    /\ pc = "write_input"
    /\ \E ok \in BOOLEAN :
          /\ input_buffer' = IF ok THEN input ELSE input_buffer
          /\ evt' = IF ok THEN [evt EXCEPT !["input_write"] = "complete"] ELSE evt
          /\ pc' = Propagate(ok, "write_count")
          /\ err' = Raise(ok, "write")
    /\ UNCHANGED <<input, count_buffer, result_buffer, cmpDone, assign_pc,
                   assign_i, assign_expected, now, tStart, tEnd, result,
                   duration, merge_sort_input, merge_sort_result, printed>>

WriteCount ==
    /\ pc = "write_count"
    /\ \E ok \in BOOLEAN :
          /\ count_buffer' = IF ok THEN Fill(N, 0) ELSE count_buffer
          /\ evt' = IF ok THEN [evt EXCEPT !["count_write"] = "complete"] ELSE evt
          /\ pc' = Propagate(ok, "write_result")
          /\ err' = Raise(ok, "write")
    /\ UNCHANGED <<input, input_buffer, result_buffer, cmpDone, assign_pc,
                   assign_i, assign_expected, now, tStart, tEnd, result,
                   duration, merge_sort_input, merge_sort_result, printed>>

WriteResult ==
    /\ pc = "write_result"
    /\ \E ok \in BOOLEAN :
          /\ result_buffer' = IF ok THEN Fill(N, Sentinel) ELSE result_buffer
          /\ evt' = IF ok THEN [evt EXCEPT !["result_write"] = "complete"] ELSE evt
          /\ pc' = Propagate(ok, "enqueue_compare")
          /\ err' = Raise(ok, "write")
    /\ UNCHANGED <<input, input_buffer, count_buffer, cmpDone, assign_pc,
                   assign_i, assign_expected, now, tStart, tEnd, result,
                   duration, merge_sort_input, merge_sort_result, printed>>

EnqueueCompare ==
    /\ pc = "enqueue_compare"
    /\ \E ok \in BOOLEAN :
          /\ evt' = IF ok THEN [evt EXCEPT !["compare"] = "queued"] ELSE evt
          /\ pc' = Propagate(ok, "enqueue_assign")
          /\ err' = Raise(ok, "enqueue")
    /\ UNCHANGED <<input, input_buffer, count_buffer, result_buffer, cmpDone,
                   assign_pc, assign_i, assign_expected, now, tStart, tEnd,
                   result, duration, merge_sort_input, merge_sort_result,
                   printed>>

EnqueueAssign ==
    /\ pc = "enqueue_assign"
    /\ \E ok \in BOOLEAN :
          /\ evt' = IF ok THEN [evt EXCEPT !["assign"] = "queued"] ELSE evt
          /\ pc' = Propagate(ok, "read")
          /\ err' = Raise(ok, "enqueue")
    /\ UNCHANGED <<input, input_buffer, count_buffer, result_buffer, cmpDone,
                   assign_pc, assign_i, assign_expected, now, tStart, tEnd,
                   result, duration, merge_sort_input, merge_sort_result,
                   printed>>

ReadOutcomes == {"ok", "enqueue_failed", "wait_failed"}

\* enqueue_read_buffer(CL_BLOCKING, ..., &events)? and read_event.wait()?:
\* the enqueue fails, or the blocking read is done once the events of its
\* wait list are complete and read_event.wait() then succeeds or fails.
ReadBack ==
    /\ pc = "read"
    /\ \E outcome \in ReadOutcomes :
          LET enqueued == outcome # "enqueue_failed"
              ok == outcome = "ok"
          IN  /\ enqueued => Complete(ReadWaitList)
              /\ result' = IF enqueued THEN result_buffer ELSE result
              /\ evt' = IF enqueued
                        THEN [evt EXCEPT !["read"] = "complete"]
                        ELSE evt
              /\ pc' = Propagate(ok, "print")
              /\ err' = Raise(ok, IF enqueued THEN "wait" ELSE "read")
    /\ UNCHANGED <<input, input_buffer, count_buffer, result_buffer, cmpDone,
                   assign_pc, assign_i, assign_expected, now, tStart, tEnd,
                   duration, merge_sort_input, merge_sort_result, printed>>

\* "Array to Sort" and "Parallel Sorted Array"
PrintArrays ==
    /\ pc = "print"
    /\ printed' = TRUE
    /\ pc' = "profile"
    /\ UNCHANGED <<input, input_buffer, count_buffer, result_buffer, evt,
                   cmpDone, assign_pc, assign_i, assign_expected, now, tStart,
                   tEnd, result, duration, merge_sort_input, merge_sort_result,
                   err>>

Profile ==
    /\ pc = "profile"
    /\ \E ok \in BOOLEAN :
          /\ LET compare_start_time == tStart["compare"]
                 compare_end_time == tEnd["compare"]
                 assign_start_time == tStart["compare"]
                 assign_end_time == tEnd["compare"]
             IN  duration' =
                    IF ok
                    THEN (compare_end_time - compare_start_time)
                           + (assign_end_time - assign_start_time)
                    ELSE duration
          /\ pc' = Propagate(ok, "copy_input")
          /\ err' = Raise(ok, "profile")
    /\ UNCHANGED <<input, input_buffer, count_buffer, result_buffer, evt,
                   cmpDone, assign_pc, assign_i, assign_expected, now, tStart,
                   tEnd, result, merge_sort_input, merge_sort_result, printed>>

CopyInput ==
    /\ pc = "copy_input"
    /\ merge_sort_input' = Tagged(input)
    /\ pc' = "merge_sort"
    /\ UNCHANGED <<input, input_buffer, count_buffer, result_buffer, evt,
                   cmpDone, assign_pc, assign_i, assign_expected, now, tStart,
                   tEnd, result, duration, merge_sort_result, printed, err>>

MergeSortCall ==
    /\ pc = "merge_sort"
    /\ merge_sort_result' = merge_sort(merge_sort_input)
    /\ pc' = "done"
    /\ UNCHANGED <<input, input_buffer, count_buffer, result_buffer, evt,
                   cmpDone, assign_pc, assign_i, assign_expected, now, tStart,
                   tEnd, result, duration, merge_sort_input, printed, err>>

(***************************************************************************)
(* Device steps.                                                           *)
(***************************************************************************)
KernelStart(k) ==
    /\ evt[k] = "queued"
    /\ Complete(WaitList(k))
    /\ evt' = [evt EXCEPT ![k] = "running"]
    /\ tStart' = [tStart EXCEPT ![k] = now]
    /\ UNCHANGED <<pc, err, printed, input, input_buffer, count_buffer, result_buffer,
                   cmpDone, assign_pc, assign_i, assign_expected, now, tEnd,
                   result, duration, merge_sort_input, merge_sort_result>>

\* compare_kernel work item with get_global_id(0) = i - 1, get_global_id(1) = j - 1
CompareItem(i, j) ==
    /\ evt["compare"] = "running"
    /\ <<i, j>> \notin cmpDone
    /\ count_buffer' =
          IF Greater(input_buffer[i], input_buffer[j])
          THEN [count_buffer EXCEPT ![i] = @ + 1]
          ELSE count_buffer
    /\ cmpDone' = cmpDone \cup {<<i, j>>}
    /\ UNCHANGED <<pc, err, printed, input, input_buffer, result_buffer, evt, assign_pc,
                   assign_i, assign_expected, now, tStart, tEnd, result,
                   duration, merge_sort_input, merge_sort_result>>

\* One iteration of the do-while loop of the assign_kernel work item with
\* get_global_id(0) = id - 1.  An access past the end of results is outside
\* the buffer: it returns some value and leaves the buffer alone.
AssignItem(id) ==
    /\ evt["assign"] = "running"
    /\ assign_pc[id] = "loop"
    /\ LET slot == count_buffer[id] + assign_i[id]
       IN  \E old \in (IF slot < N THEN {result_buffer[slot + 1]} ELSE Garbage) :
              /\ result_buffer' =
                    IF slot < N
                    THEN [result_buffer EXCEPT
                            ![slot + 1] = CmpXchg(old, Sentinel, input_buffer[id])]
                    ELSE result_buffer
              /\ assign_expected' = [assign_expected EXCEPT ![id] = old]
              /\ assign_i' = [assign_i EXCEPT ![id] = @ + 1]
              /\ assign_pc' = [assign_pc EXCEPT ![id] =
                    IF LoopAgain(old, count_buffer[id], assign_i[id] + 1, N)
                    THEN "loop" ELSE "exit"]
    /\ UNCHANGED <<pc, err, printed, input, input_buffer, count_buffer, evt, cmpDone, now,
                   tStart, tEnd, result, duration, merge_sort_input,
                   merge_sort_result>>

ItemsDone(k) ==
    IF k = "compare"
    THEN cmpDone = (1 .. N) \X (1 .. N)
    ELSE \A id \in 1 .. N : assign_pc[id] = "exit"

KernelEnd(k) ==
    /\ evt[k] = "running"
    /\ ItemsDone(k)
    /\ \E d \in 0 .. MaxElapsed :
          /\ now' = now + d
          /\ tEnd' = [tEnd EXCEPT ![k] = now + d]
    /\ evt' = [evt EXCEPT ![k] = "complete"]
    /\ UNCHANGED <<pc, err, printed, input, input_buffer, count_buffer, result_buffer,
                   cmpDone, assign_pc, assign_i, assign_expected, tStart,
                   result, duration, merge_sort_input, merge_sort_result>>

Next ==
    \/ WriteInput
    \/ WriteCount
    \/ WriteResult
    \/ EnqueueCompare
    \/ EnqueueAssign
    \/ CreateBuffers
    \/ ReadBack
    \/ PrintArrays
    \/ Profile
    \/ CopyInput
    \/ MergeSortCall
    \/ \E k \in Kernels : KernelStart(k)
    \/ \E i \in 1 .. N, j \in 1 .. N : CompareItem(i, j)
    \/ \E id \in 1 .. N : AssignItem(id)
    \/ \E k \in Kernels : KernelEnd(k)

Spec == Init /\ [][Next]_vars

(***************************************************************************)
(* merge_sort applied to any vector, the device left alone.                *)
(***************************************************************************)
InitMerge ==
    /\ input \in SeqsUpTo(0, MaxLen)
    /\ pc = "merge_sort"
    /\ input_buffer = <<>>
    /\ count_buffer = <<>>
    /\ result_buffer = <<>>
    /\ Idle(0)
    /\ merge_sort_input = Tagged(input)

NextMerge == MergeSortCall

SpecMerge == InitMerge /\ [][NextMerge]_vars

(***************************************************************************)
(* The device runs every work item of a kernel it has started and reports  *)
(* the kernel complete once all of them have returned.                     *)
(***************************************************************************)
DeviceFairness ==
    /\ \A id \in 1 .. MaxN : WF_vars(id <= N /\ AssignItem(id))
    /\ WF_vars(KernelEnd("assign"))

SpecFair == Spec /\ DeviceFairness

(***************************************************************************)
(* Vocabulary of the properties.                                           *)
(***************************************************************************)
Count(s, v) == Cardinality({k \in DOMAIN s : s[k] = v})

IsPermutation(s, t) ==
    /\ Len(s) = Len(t)
    /\ \A v \in Values \cup Garbage : Count(s, v) = Count(t, v)

IsAscending(s) == \A k \in 1 .. Len(s) - 1 : s[k] <= s[k + 1]

Distinct(s) == \A a, b \in DOMAIN s : a # b => s[a] # s[b]

\* number of elements of s strictly smaller than v
Rank(s, v) == Cardinality({j \in DOMAIN s : s[j] < v})

HasDuplicates(s) == ~Distinct(s)

Unsorted(s) == ~IsAscending(s)

ReadDone == evt["read"] = "complete"

(***************************************************************************)
(* C1: for every input of N >= 1 values and every interleaving of the      *)
(* compare_kernel work items followed by every interleaving of the         *)
(* assign_kernel work items, the result read back is a permutation of the  *)
(* input and is ascending.                                                 *)
(***************************************************************************)
C1_SortedPermutation ==
    ReadDone => IsPermutation(result, input) /\ IsAscending(result)

C1_Witness ==
    ReadDone /\ N = 3 /\ HasDuplicates(input) /\ Unsorted(input)

(***************************************************************************)
(* C2: once all N * N compare_kernel work items have completed, counts[i]  *)
(* is the number of indices j with source[j] < source[i].                  *)
(***************************************************************************)
C2_CountsAreRanks ==
    cmpDone = (1 .. N) \X (1 .. N) =>
        \A i \in 1 .. N : count_buffer[i] = Rank(input, input[i])

\* a strictly descending input of length 3 with counts [2, 1, 0]
C2_Witness ==
    /\ evt["compare"] = "complete"
    /\ N = 3
    /\ input[1] > input[2] /\ input[2] > input[3]
    /\ count_buffer = <<2, 1, 0>>

(***************************************************************************)
(* C3: probe exhaustion never happens: every assign_kernel work item       *)
(* leaves its loop because its compare-and-set succeeded (it read the      *)
(* sentinel), and when the kernel is complete no result slot holds the     *)
(* sentinel.                                                               *)
(***************************************************************************)
C3_NoProbeExhaustion ==
    /\ \A id \in 1 .. N : assign_pc[id] = "exit" => assign_expected[id] = Sentinel
    /\ evt["assign"] = "complete" =>
          \A k \in 1 .. N : result_buffer[k] # Sentinel

\* a run of three copies of the maximum value, one work item having probed
\* up to the last slot of the array
C3_Witness ==
    /\ evt["assign"] = "complete"
    /\ N = 3
    /\ \A k \in 1 .. N : input[k] = MaxValue - 1
    /\ \E id \in 1 .. N : assign_i[id] = 3

(***************************************************************************)
(* C4: after RankScatter, a value v that occurs d times and has rank c     *)
(* holds exactly the slots c .. c + d - 1 (0-based).                       *)
(***************************************************************************)
C4_ContiguousRuns ==
    evt["assign"] = "complete" =>
        \A v \in Values :
            {k \in 1 .. N : result_buffer[k] = v}
                = (Rank(input, v) + 1) .. (Rank(input, v) + Count(input, v))

\* a duplicate run behind a smaller element, the two duplicates having
\* collided on their common rank slot
C4_Witness ==
    /\ evt["assign"] = "complete"
    /\ N = 3
    /\ \E a, b, c \in 1 .. N :
          /\ input[a] = input[b] /\ a # b /\ input[c] < input[a]
          /\ assign_i[a] = 2

(***************************************************************************)
(* C5: for an input of pairwise distinct values the accelerator result     *)
(* equals merge_sort(input) element for element.                           *)
(***************************************************************************)
C5_EqualsMergeSort ==
    pc = "done" /\ Distinct(input) => result = Vals(merge_sort_result)

C5_Witness ==
    pc = "done" /\ Distinct(input) /\ N = 3 /\ Unsorted(input)

(***************************************************************************)
(* C6: no assign_kernel work item runs before every compare_kernel work    *)
(* item has completed and the sentinel fill of results has completed; the  *)
(* two kernels never run interleaved.                                      *)
(***************************************************************************)
AssignActed ==
    \/ evt["assign"] \in {"running", "complete"}
    \/ \E id \in 1 .. N : assign_i[id] > 0 \/ assign_pc[id] = "exit"

C6_AssignAfterCompare ==
    AssignActed =>
        /\ evt["compare"] = "complete"
        /\ cmpDone = (1 .. N) \X (1 .. N)
        /\ evt["result_write"] = "complete"

C6_Witness ==
    /\ evt["assign"] = "running"
    /\ \E id \in 1 .. N : assign_i[id] > 0
    /\ \E id \in 1 .. N : assign_pc[id] = "loop"

(***************************************************************************)
(* C7: the read-back of results happens only when compare_kernel and       *)
(* assign_kernel have both completed, no assign_kernel work item pending.  *)
(***************************************************************************)
C7_ReadAfterKernels ==
    evt["read"] # "none" =>
        /\ evt["compare"] = "complete"
        /\ evt["assign"] = "complete"
        /\ \A id \in 1 .. N : assign_pc[id] = "exit"

C7_Witness ==
    ReadDone /\ pc = "print" /\ N = 3 /\ result = result_buffer

(***************************************************************************)
(* C8: the reported duration is (compare end - compare start) +            *)
(* (assign end - assign start), each from that kernel's own event.         *)
(***************************************************************************)
C8_DurationSumsBothKernels ==
    pc \in {"copy_input", "merge_sort", "done"} /\ ReadDone =>
        duration = (tEnd["compare"] - tStart["compare"])
                     + (tEnd["assign"] - tStart["assign"])

(***************************************************************************)
(* C9: merge takes the element of the left run on a tie, so merge_sort is  *)
(* stable: equal values keep their relative order of the input.            *)
(***************************************************************************)
C9_MergeSortStable ==
    pc = "done" =>
        \A a, b \in 1 .. Len(merge_sort_result) :
            a < b /\ Val(merge_sort_result[a]) = Val(merge_sort_result[b])
                => Pos(merge_sort_result[a]) < Pos(merge_sort_result[b])

(***************************************************************************)
(* C10: merge_sort returns an ascending permutation of its input; a vector *)
(* of length 0 or 1 is returned unchanged; the vector handed to it is not  *)
(* modified by the call.                                                   *)
(***************************************************************************)
C10_MergeSortSorts ==
    [][pc = "merge_sort" /\ pc' = "done" =>
          /\ merge_sort_input' = merge_sort_input
          /\ IsAscending(Vals(merge_sort_result'))
          /\ IsPermutation(Vals(merge_sort_result'), Vals(merge_sort_input))
          /\ Len(merge_sort_input) < 2 => merge_sort_result' = merge_sort_input]_vars

C10_Witness ==
    /\ pc = "done"
    /\ Len(merge_sort_input) = 4
    /\ Unsorted(Vals(merge_sort_input))
    /\ HasDuplicates(Vals(merge_sort_input))
    /\ IsAscending(Vals(merge_sort_result))

(***************************************************************************)
(* C11: a buffer-allocation, upload, kernel-launch, read-back or wait      *)
(* failure aborts the sort at that stage: main is out, the arrays are not  *)
(* printed, and from then on no further command is issued, the result      *)
(* vector is not touched and nothing is printed; a run that reaches its    *)
(* end has had no failure and has printed the result read back.  Until     *)
(* the read-back is enqueued the result vector holds no sorted data.       *)
(***************************************************************************)
SortErrors == {"create_buffer", "write", "enqueue", "read", "wait"}

C11_FailureAborts ==
    /\ [](err \in SortErrors => pc = "failed" /\ ~printed)
    /\ [](err \in SortErrors \ {"wait"} => ~ReadDone /\ result = Fill(N, 0))
    /\ [](pc = "done" => err = "none" /\ printed /\ ReadDone)
    /\ [][err # "none" =>
            /\ \A c \in Cmds : evt[c] = "none" => evt'[c] = "none"
            /\ result' = result
            /\ printed' = printed
            /\ pc' = pc]_vars

\* read_event.wait() failed after the blocking read had filled the result
\* vector: main is out and has printed nothing
C11_Witness ==
    /\ err = "wait"
    /\ pc = "failed"
    /\ ReadDone
    /\ N = 3
    /\ result = result_buffer
    /\ ~printed

(***************************************************************************)
(* C12: for N = 0 the sort completes successfully: no error is raised.     *)
(***************************************************************************)
C12_EmptyInputSucceeds ==
    N = 0 => err = "none" /\ pc # "failed"

(***************************************************************************)
(* C13: an input that is already ascending (duplicates allowed) is read    *)
(* back element for element.                                               *)
(***************************************************************************)
C13_SortedInputUnchanged ==
    ReadDone /\ IsAscending(input) => result = input

C13_Witness ==
    /\ ReadDone
    /\ N = 3
    /\ IsAscending(input)
    /\ HasDuplicates(input)
    /\ input[1] < input[3]

(***************************************************************************)
(* C14: every compare-and-set of an assign_kernel work item targets an     *)
(* index counts[id] + i with 0 <= counts[id] + i < N.                      *)
(***************************************************************************)
C14_CasInBounds ==
    evt["assign"] = "running" =>
        \A id \in 1 .. N :
            assign_pc[id] = "loop" =>
                /\ 0 <= count_buffer[id] + assign_i[id]
                /\ count_buffer[id] + assign_i[id] < N

\* a work item about to try the last slot of the array after two failures
C14_Witness ==
    /\ evt["assign"] = "running"
    /\ N = 3
    /\ \E id \in 1 .. N :
          /\ assign_pc[id] = "loop"
          /\ count_buffer[id] + assign_i[id] = N - 1
          /\ assign_i[id] = 2

(***************************************************************************)
(* C15: an assign_kernel work item makes at most N - counts[id]            *)
(* compare-and-set attempts, whatever the schedule; with the device        *)
(* running every work item, each work item leaves its loop and the kernel  *)
(* completes.                                                              *)
(***************************************************************************)
C15_BoundedProbing ==
    /\ [](evt["assign"] \in {"running", "complete"} =>
            \A id \in 1 .. N : assign_i[id] <= N - count_buffer[id])
    /\ \A id \in 1 .. MaxN :
          (evt["assign"] = "running" /\ id <= N /\ assign_pc[id] = "loop")
              ~> (id <= N /\ assign_pc[id] = "exit")
    /\ (evt["assign"] = "running") ~> (evt["assign"] = "complete")

\* a work item that has used all of its N - counts[id] attempts
C15_Witness ==
    /\ evt["assign"] = "complete"
    /\ N = 3
    /\ \E id \in 1 .. N :
          assign_i[id] = N - count_buffer[id] /\ assign_i[id] = 3

(***************************************************************************)
(* C16: during RankCounter a step raises a counts[i] by 1 or leaves it,    *)
(* every ordered pair (i, j) contributes at most one increment, and        *)
(* 0 <= counts[i] <= N - 1 in every state.                                 *)
(***************************************************************************)
Increments(i) ==
    {j \in 1 .. N : <<i, j>> \in cmpDone /\ input_buffer[i] > input_buffer[j]}

C16_CountsBounded ==
    /\ [](evt["count_write"] = "complete" =>
            \A i \in 1 .. N :
                /\ 0 <= count_buffer[i]
                /\ count_buffer[i] <= N - 1
                /\ count_buffer[i] = Cardinality(Increments(i)))
    /\ [][evt["compare"] = "running" =>
            /\ \A i \in 1 .. N :
                  count_buffer'[i] \in {count_buffer[i], count_buffer[i] + 1}
            /\ count_buffer' # count_buffer =>
                  /\ cmpDone \subseteq cmpDone'
                  /\ Cardinality(cmpDone' \ cmpDone) = 1]_vars

C16_Witness ==
    /\ evt["compare"] = "running"
    /\ N = 3
    /\ cmpDone # (1 .. N) \X (1 .. N)
    /\ \E i \in 1 .. N : count_buffer[i] = N - 1

(***************************************************************************)
(* C17: no kernel writes source, compare_kernel does not touch results,    *)
(* assign_kernel does not write counts: source is the uploaded input from  *)
(* the upload on, and counts does not change while RankScatter runs.       *)
(***************************************************************************)
C17_KernelFrames ==
    /\ [](evt["input_write"] = "complete" => input_buffer = input)
    /\ [][/\ evt["input_write"] = "complete" => input_buffer' = input_buffer
          /\ cmpDone' # cmpDone => result_buffer' = result_buffer
          /\ evt["assign"] = "running" => count_buffer' = count_buffer]_vars

C17_Witness ==
    /\ evt["assign"] = "complete"
    /\ N = 3
    /\ input_buffer = input
    /\ count_buffer = <<1, 0, 1>>
    /\ \A k \in 1 .. N : result_buffer[k] # Sentinel

(***************************************************************************)
(* C18: result slots are write-once: in RankScatter a slot changes only    *)
(* from the sentinel to the source value of the work item that claimed it, *)
(* a slot holding a value is never modified again, a step changes at most  *)
(* one slot, and the work item that wrote leaves its loop with that write. *)
(***************************************************************************)
Changed == {k \in 1 .. N : result_buffer'[k] # result_buffer[k]}

C18_WriteOnce ==
    [][evt["result_write"] = "complete" =>
          /\ Cardinality(Changed) <= 1
          /\ \A k \in Changed :
                /\ result_buffer[k] = Sentinel
                /\ \E id \in 1 .. N :
                      /\ assign_pc[id] = "loop"
                      /\ assign_pc'[id] = "exit"
                      /\ count_buffer[id] + assign_i[id] = k - 1
                      /\ result_buffer'[k] = input_buffer[id]
          /\ \A id \in 1 .. N :
                assign_pc[id] = "exit" =>
                    /\ assign_pc'[id] = "exit"
                    /\ assign_i'[id] = assign_i[id]]_vars

\* a work item has claimed its slot at the second attempt, another slot is
\* still empty
C18_Witness ==
    /\ evt["assign"] = "running"
    /\ N = 3
    /\ \E id \in 1 .. N :
          /\ assign_pc[id] = "exit"
          /\ assign_i[id] = 2
          /\ result_buffer[count_buffer[id] + 2] = input_buffer[id]
    /\ \E k \in 1 .. N : result_buffer[k] = Sentinel

(***************************************************************************)
(* C19: in every state of RankScatter a slot results[s] holds the sentinel *)
(* or the s-th element of the ascending input; a compare-and-set of work   *)
(* item id fails only on a slot that holds the value source[id].           *)
(***************************************************************************)
\* the value at position k (1-based) of the input in ascending order
SortedAt(k) ==
    CHOOSE v \in Values :
        Rank(input, v) < k /\ k <= Rank(input, v) + Count(input, v)

C19_SlotsHoldSortedValues ==
    evt["result_write"] = "complete" =>
        /\ \A k \in 1 .. N : result_buffer[k] \in {Sentinel, SortedAt(k)}
        /\ \A id \in 1 .. N :
              assign_i[id] > 0 /\ assign_expected[id] # Sentinel =>
                  assign_expected[id] = input_buffer[id]

\* mid-kernel: a work item has just failed on a slot held by an equal value,
\* and a slot is still empty
C19_Witness ==
    /\ evt["assign"] = "running"
    /\ N = 3
    /\ \E id \in 1 .. N :
          /\ assign_pc[id] = "loop"
          /\ assign_i[id] > 0
          /\ assign_expected[id] = input_buffer[id]
    /\ \E k \in 1 .. N : result_buffer[k] = Sentinel
    /\ \E k \in 1 .. N : result_buffer[k] # Sentinel

(***************************************************************************)
(* C20: the result read back is schedule-independent: it is a function of  *)
(* the input alone, so two runs on the same input that differ in the       *)
(* interleaving of the work items read back the same array.                *)
(***************************************************************************)
RankSorted(s) == [k \in 1 .. Len(s) |-> SortedAt(k)]

C20_ScheduleIndependent ==
    ReadDone => result = RankSorted(input) /\ result_buffer = RankSorted(input)

\* a run in which the second of two equal elements claimed their rank slot
\* before the first
C20_Witness ==
    /\ ReadDone
    /\ N = 3
    /\ input[1] = input[2]
    /\ assign_i[1] = 2
    /\ assign_i[2] = 1

====
